---- MODULE Spec2Model ----
(***************************************************************************)
(* A model of the Alpha House PnL bot (src/main.py): the identifier        *)
(* extractor, the market-data resolver, the JSON-file snapshot store, the  *)
(* multiplier computation of /pnl, the card renderer's control flow and    *)
(* the five chat handlers.                                                 *)
(*                                                                         *)
(* Conventions.  A text is a sequence of one-character strings.  Python's  *)
(* None is the model value None.  Amounts (price, mcap) are non-negative   *)
(* integers of the smallest unit; a quotient a / b is kept exactly, as the *)
(* pair <<a, b>> with b > 0, and compared by cross-multiplication.         *)
(***************************************************************************)
EXTENDS Integers, Sequences, FiniteSets, TLC

VARIABLES
    file,       \* tracked.json: Corrupt, or the mapping identifier -> snapshot
    pend,       \* per update-processing task: Idle, or the reply it is awaiting
    removals,   \* history: per identifier, how many times /untrack deleted it
    first,      \* history: per identifier, the first resolved quote since its last removal
    acked,      \* history: identifiers whose 'Tracking' reply was issued and not removed since
    arg,        \* input of the function specifications (SpecDetect, SpecCard, SpecRender)
    res         \* their result, None before the function is applied

vars == <<file, pend, removals, first, acked, arg, res>>

\* Python's None where a tag is expected, and where a string is expected (the code
\* only ever tests such a string for truth, and the empty string is falsy too)
None == "None"
NoCa == <<>>

(***************************************************************************)
(* Characters and the two regular expressions of detect_contract_address.  *)
(***************************************************************************)
Digits == {"0", "1", "2", "3", "4", "5", "6", "7", "8", "9"}

UpperLetters ==
    <<"A", "B", "C", "D", "E", "F", "G", "H", "I", "J", "K", "L", "M",
      "N", "O", "P", "Q", "R", "S", "T", "U", "V", "W", "X", "Y", "Z">>

LowerLetters ==
    <<"a", "b", "c", "d", "e", "f", "g", "h", "i", "j", "k", "l", "m",
      "n", "o", "p", "q", "r", "s", "t", "u", "v", "w", "x", "y", "z">>

Range(s) == {s[i] : i \in DOMAIN s}

\* [a-fA-F0-9]
HexChars == Digits \cup {"a", "b", "c", "d", "e", "f", "A", "B", "C", "D", "E", "F"}

\* [1-9A-HJ-NP-Za-km-z]
Base58Chars ==
    ((Digits \ {"0"}) \cup Range(UpperLetters) \cup Range(LowerLetters)) \ {"I", "O", "l"}

\* \w of the re module, on the ASCII characters the model uses
WordChars == Digits \cup Range(UpperLetters) \cup Range(LowerLetters) \cup {"_"}

\* the lengths the two patterns fix
EvmHexLen == 40
SolMinLen == 32
SolMaxLen == 44

\* \b at the gap before position i (1-based) of text; i = Len(text) + 1 is the end
WordBoundary(text, i) ==
    LET before == i > 1 /\ text[i - 1] \in WordChars
        after  == i <= Len(text) /\ text[i] \in WordChars
    IN  before # after

\* the length of the match of \b0x[a-fA-F0-9]{40}\b that starts at i, 0 if none
EvmMatchLen(text, i) ==
    IF /\ i + EvmHexLen + 1 <= Len(text)
       /\ text[i] = "0"
       /\ text[i + 1] = "x"
       /\ WordBoundary(text, i)
       /\ \A k \in 2 .. (EvmHexLen + 1) : text[i + k] \in HexChars
       /\ WordBoundary(text, i + EvmHexLen + 2)
    THEN EvmHexLen + 2
    ELSE 0

\* the number of consecutive base-58 characters from i, counted up to cap
Base58Run(text, i, cap) ==
    LET runs == {k \in 0 .. cap :
                    \A j \in 0 .. (k - 1) :
                        i + j <= Len(text) /\ text[i + j] \in Base58Chars}
    IN  CHOOSE k \in runs : \A j \in runs : j <= k

\* the length of the match of \b[1-9A-HJ-NP-Za-km-z]{32,44}\b that starts at i,
\* 0 if none: the quantifier is greedy and backtracks to shorter lengths
SolMatchLen(text, i) ==
    IF i > Len(text) \/ text[i] \notin Base58Chars \/ ~WordBoundary(text, i)
    THEN 0
    ELSE LET run == Base58Run(text, i, SolMaxLen)
             ok  == {k \in SolMinLen .. run : WordBoundary(text, i + k)}
         IN  IF ok = {} THEN 0 ELSE CHOOSE k \in ok : \A j \in ok : j <= k

MatchLen(pattern, text, i) ==
    IF pattern = "evm" THEN EvmMatchLen(text, i) ELSE SolMatchLen(text, i)

\* re.findall(pattern, text): the non-overlapping matches, left to right; the scan
\* resumes right after each match
RECURSIVE findall_from(_, _, _)
findall_from(pattern, text, i) ==
    LET starts == {j \in i .. Len(text) : MatchLen(pattern, text, j) > 0}
    IN  IF starts = {}
        THEN <<>>
        ELSE LET j == CHOOSE m \in starts : \A k \in starts : m <= k
                 n == MatchLen(pattern, text, j)
             IN  <<SubSeq(text, j, j + n - 1)>> \o findall_from(pattern, text, j + n)

findall(pattern, text) == findall_from(pattern, text, 1)

\* str.lower()
LowerChar(c) ==
    IF \E i \in DOMAIN UpperLetters : UpperLetters[i] = c
    THEN LowerLetters[CHOOSE i \in DOMAIN UpperLetters : UpperLetters[i] = c]
    ELSE c

lower(s) == [i \in DOMAIN s |-> LowerChar(s[i])]

\* the variant of detect_contract_address that tries the base-58 pattern first
detect_sol_first(msg) ==
    IF msg = <<>>
    THEN <<NoCa, None>>
    ELSE LET evm == findall("evm", msg)
             sol == findall("sol", msg)
         IN  IF sol # <<>> THEN <<sol[1], "SOL">>
             ELSE IF evm # <<>> THEN <<lower(evm[1]), "EVM">>
             ELSE <<NoCa, None>>

detect_contract_address(msg) ==
    IF msg = <<>>
    THEN <<NoCa, None>>
    ELSE LET evm == findall("evm", msg)
         IN  IF evm # <<>>
             THEN <<lower(evm[1]), "EVM">>
             ELSE LET sol == findall("sol", msg)
                  IN  IF sol # <<>> THEN <<sol[1], "SOL">> ELSE <<NoCa, None>>

(***************************************************************************)
(* Texts of the model: concatenations of a few chunks.                     *)
(***************************************************************************)
Rep(c, n) == [i \in 1 .. n |-> c]

Cycle(cs, n) == [i \in 1 .. n |-> cs[((i - 1) % Len(cs)) + 1]]

Sp == <<" ">>

\* 0xAAAA...AAAA, the address of the round-trip scenario, and its lowercase form
EvmUpper == <<"0", "x">> \o Rep("A", EvmHexLen)
EvmLower == lower(EvmUpper)

\* a second EVM address, mixed case, containing the digit 0
EvmMixed == <<"0", "x">> \o Cycle(<<"b", "E", "0", "f">>, EvmHexLen)

\* base-58 addresses of the shortest and the longest length, mixed case
SolShort == Cycle(<<"S", "o", "L", "1">>, SolMinLen)
SolLong  == Cycle(<<"9", "x", "Q">>, SolMaxLen)

\* shapes that are almost addresses: one hex digit short, and a word character
\* that glued to an address removes its word boundary
HexShort == <<"0", "x">> \o Rep("c", EvmHexLen - 1)
Glue     == <<"O">>

Chunks == {Sp, EvmUpper, EvmMixed, SolShort, SolLong, HexShort, Glue}

MaxChunks == 3

RECURSIVE TextsOfChunks(_)
TextsOfChunks(n) ==
    IF n = 0
    THEN {<<>>}
    ELSE LET shorter == TextsOfChunks(n - 1)
         IN  shorter \cup {t \o c : t \in shorter, c \in Chunks}

Texts == TextsOfChunks(MaxChunks)

(***************************************************************************)
(* The state of the bot before any update, shared by every specification.  *)
(***************************************************************************)
Tasks == {1, 2}

EmptyMap == <<>>

\* lines 43-45 create the file holding {} when it does not exist
EmptyFile == [valid |-> TRUE, data |-> EmptyMap]

\* the file between open(DATA_FILE, "w"), which truncates it, and the end of json.dump
Corrupt == [valid |-> FALSE, data |-> EmptyMap]

NotApplied == [done |-> FALSE]

Idle == [op |-> "idle"]

BotInit ==
    /\ file = EmptyFile
    /\ pend = [t \in Tasks |-> Idle]
    /\ removals = EmptyMap
    /\ first = EmptyMap
    /\ acked = {}

BotIdle == UNCHANGED <<file, pend, removals, first, acked>>

(***************************************************************************)
(* SpecDetect: detect_contract_address applied to every text of Texts.     *)
(***************************************************************************)
InitDetect ==
    /\ BotInit
    /\ arg \in {[fn |-> "detect", text |-> t] : t \in Texts}
    /\ res = NotApplied

ApplyDetect ==
    /\ arg.fn = "detect"
    /\ ~res.done
    /\ res' = [done |-> TRUE, val |-> detect_contract_address(arg.text)]
    /\ UNCHANGED arg
    /\ BotIdle

SpecDetect == InitDetect /\ [][ApplyDetect]_vars

HasMatch(pattern, text) == \E i \in 1 .. Len(text) : MatchLen(pattern, text, i) > 0

FirstMatchPos(pattern, text) ==
    CHOOSE i \in 1 .. Len(text) :
        /\ MatchLen(pattern, text, i) > 0
        /\ \A j \in 1 .. (i - 1) : MatchLen(pattern, text, j) = 0

MatchAt(pattern, text, i) == SubSeq(text, i, i + MatchLen(pattern, text, i) - 1)

\* C9: extraction precedence.  Whenever the text holds a match of the EVM pattern
\* (whatever base-58 matches it also holds, before or after it), the result is the
\* leftmost EVM match lowercased, with family EVM; only a text with no EVM match
\* yields the leftmost base-58 match, case preserved, with family SOL; a text with
\* no match of either pattern, the empty text included, yields (none, none).
C9_ExtractionPrecedence ==
    (arg.fn = "detect" /\ res.done) =>
        LET t == arg.text
        IN  IF HasMatch("evm", t)
            THEN /\ res.val[2] = "EVM"
                 /\ res.val[1] = lower(MatchAt("evm", t, FirstMatchPos("evm", t)))
                 /\ \A i \in DOMAIN res.val[1] : res.val[1][i] \notin Range(UpperLetters)
            ELSE IF HasMatch("sol", t)
            THEN res.val = <<MatchAt("sol", t, FirstMatchPos("sol", t)), "SOL">>
            ELSE res.val = <<NoCa, None>>

\* a text whose base-58 match comes before its EVM match, and the EVM one returned
C9_Witness ==
    /\ arg.fn = "detect"
    /\ res.done
    /\ HasMatch("evm", arg.text)
    /\ HasMatch("sol", arg.text)
    /\ FirstMatchPos("sol", arg.text) < FirstMatchPos("evm", arg.text)
    /\ res.val[2] = "EVM"

\* a text with a base-58 match only, returned with its upper-case letters kept
C9_WitnessSol ==
    /\ arg.fn = "detect"
    /\ res.done
    /\ ~HasMatch("evm", arg.text)
    /\ res.val[2] = "SOL"
    /\ \E i \in DOMAIN res.val[1] : res.val[1][i] \in Range(UpperLetters)

(***************************************************************************)
(* The multiplier of /pnl and the tier and accent of make_card_image.      *)
(***************************************************************************)
\* a / b for b # 0, and the number 0
Quot(a, b) == <<a, b>>
Zero == <<0, 1>>

\* m < k and m >= k for a quotient m and an integer k
QLess(m, k) == m[1] < k * m[2]
QAtLeast(m, k) == m[1] >= k * m[2]

\* the variant of pnl_multiplier that looks at the baseline side alone
pnl_multiplier_one_sided(start_mcap, start_price, now_mcap, now_price) ==
    IF start_mcap # 0
    THEN Quot(now_mcap, start_mcap)
    ELSE IF start_price # 0
    THEN Quot(now_price, start_price)
    ELSE Zero

\* the variant of pnl_multiplier that prefers the prices to the mcaps
pnl_multiplier_price_first(start_mcap, start_price, now_mcap, now_price) ==
    IF start_price # 0 /\ now_price # 0
    THEN Quot(now_price, start_price)
    ELSE IF start_mcap # 0 /\ now_mcap # 0
    THEN Quot(now_mcap, start_mcap)
    ELSE Zero

\* the variant of pnl_multiplier that divides by 1 where the baseline is 0
pnl_multiplier_unit(start_mcap, start_price, now_mcap, now_price) ==
    IF now_mcap # 0
    THEN Quot(now_mcap, IF start_mcap # 0 THEN start_mcap ELSE 1)
    ELSE IF now_price # 0
    THEN Quot(now_price, IF start_price # 0 THEN start_price ELSE 1)
    ELSE Zero

\* lines 282-286; a number is true when it is not 0
pnl_multiplier(start_mcap, start_price, now_mcap, now_price) ==
    IF start_mcap # 0 /\ now_mcap # 0
    THEN IF start_mcap # 0 THEN Quot(now_mcap, start_mcap) ELSE Zero
    ELSE IF start_price # 0 /\ now_price # 0
    THEN IF start_price # 0 THEN Quot(now_price, start_price) ELSE Zero
    ELSE Zero

\* the variant of meme_key whose upper boundaries are closed
meme_key_closed(multiplier) ==
    IF QLess(multiplier, 1) THEN "low"
    ELSE IF ~QLess(Quot(2 * multiplier[2], 1), multiplier[1]) THEN "low"
    ELSE IF ~QLess(Quot(10 * multiplier[2], 1), multiplier[1]) THEN "mid"
    ELSE IF ~QLess(Quot(20 * multiplier[2], 1), multiplier[1]) THEN "high"
    ELSE "ultra"

\* lines 129-139
meme_key(multiplier) ==
    IF QLess(multiplier, 1) THEN "low"
    ELSE IF QAtLeast(multiplier, 1) /\ QLess(multiplier, 2) THEN "low"
    ELSE IF QAtLeast(multiplier, 2) /\ QLess(multiplier, 10) THEN "mid"
    ELSE IF QAtLeast(multiplier, 10) /\ QLess(multiplier, 20) THEN "high"
    ELSE "ultra"

\* line 186
neon(multiplier) == IF QAtLeast(multiplier, 1) THEN "gain" ELSE "loss"

(***************************************************************************)
(* SpecCard: the multiplier and the tier for every combination of amounts. *)
(***************************************************************************)
MaxAmount == 3

\* small amounts, and the amounts whose quotients sit on and just under 2, 10, 20
McapAmounts == (0 .. MaxAmount) \cup {10, 20, 100, 199, 1000, 9999, 19999}
PriceAmounts == (0 .. MaxAmount) \cup {10, 20}

InitCard ==
    /\ BotInit
    /\ arg \in {[fn |-> "card", start_mcap |-> bm, start_price |-> bp,
                 now_mcap |-> cm, now_price |-> cp] :
                    bm \in McapAmounts, bp \in PriceAmounts,
                    cm \in McapAmounts, cp \in PriceAmounts}
    /\ res = NotApplied

ApplyCard ==
    /\ arg.fn = "card"
    /\ ~res.done
    /\ LET m == pnl_multiplier(arg.start_mcap, arg.start_price, arg.now_mcap, arg.now_price)
       IN  res' = [done |-> TRUE, multiplier |-> m, meme_key |-> meme_key(m), neon |-> neon(m)]
    /\ UNCHANGED arg
    /\ BotIdle

SpecCard == InitCard /\ [][ApplyCard]_vars

\* C4: the multiplier precedence.  With both mcaps nonzero the multiplier times the
\* baseline mcap is the current mcap; otherwise, with both prices nonzero, the
\* multiplier times the baseline price is the current price; otherwise it is 0.  It
\* is never negative and its divisor is never 0.
C4_MultiplierPrecedence ==
    (arg.fn = "card" /\ res.done) =>
        LET m == res.multiplier
        IN  /\ m[2] > 0
            /\ m[1] >= 0
            /\ IF arg.start_mcap # 0 /\ arg.now_mcap # 0
               THEN m[1] * arg.start_mcap = arg.now_mcap * m[2]
               ELSE IF arg.start_price # 0 /\ arg.now_price # 0
               THEN m[1] * arg.start_price = arg.now_price * m[2]
               ELSE m[1] = 0

\* partial data: a baseline mcap with no current mcap falls back to the price quotient
C4_Witness ==
    /\ arg.fn = "card"
    /\ res.done
    /\ arg.start_mcap = 100 /\ arg.now_mcap = 0
    /\ arg.start_price = 1 /\ arg.now_price = 3
    /\ res.multiplier = <<3, 1>>

\* partial data with no usable pair: mcap on one side only and no prices gives 0
C4_WitnessZero ==
    /\ arg.fn = "card"
    /\ res.done
    /\ arg.start_mcap = 0 /\ arg.now_mcap = 100
    /\ arg.start_price = 0 /\ arg.now_price = 0
    /\ res.multiplier[1] = 0

\* C5: the four tiers with half-open boundaries.  low is exactly [0,2), mid exactly
\* [2,10), high exactly [10,20), ultra exactly [20,inf): each multiplier lies in one
\* tier, 2, 10 and 20 in the higher one and anything under them in the lower one.
C5_TierBoundaries ==
    (arg.fn = "card" /\ res.done) =>
        LET n == res.multiplier[1]
            d == res.multiplier[2]
        IN  /\ res.meme_key \in {"low", "mid", "high", "ultra"}
            /\ (res.meme_key = "low")   <=> (0 <= n /\ n < 2 * d)
            /\ (res.meme_key = "mid")   <=> (2 * d <= n /\ n < 10 * d)
            /\ (res.meme_key = "high")  <=> (10 * d <= n /\ n < 20 * d)
            /\ (res.meme_key = "ultra") <=> (20 * d <= n)

\* 19.999 is high
C5_Witness ==
    /\ arg.fn = "card"
    /\ res.done
    /\ arg.start_mcap = 1000 /\ arg.now_mcap = 19999
    /\ res.meme_key = "high"

\* 2.00 is mid, and 1.99 is low
C5_WitnessTwo ==
    /\ arg.fn = "card"
    /\ res.done
    /\ arg.start_mcap = 1 /\ arg.now_mcap = 2
    /\ res.meme_key = "mid"

C5_WitnessUnderTwo ==
    /\ arg.fn = "card"
    /\ res.done
    /\ arg.start_mcap = 100 /\ arg.now_mcap = 199
    /\ res.meme_key = "low"

(***************************************************************************)
(* The renderer: illustration lookup, font choice, auto-fit, encoding.     *)
(* What the file system, the network and the imaging library answer is the *)
(* environment env of a render call:                                       *)
(*   local   "absent" | "broken" | "ok": the tier's local file             *)
(*   remote  one Boolean per fallback URL of the tier: fetched and decoded *)
(*   fonts   per font candidate, "missing" | "scalable" | "strike": a      *)
(*           strike font loads at the candidates' size 48 only             *)
(*   legacy  textbbox refuses the built-in default font (it raises         *)
(*           ValueError "Only supported for TrueType fonts" in the library *)
(*           releases whose load_default is a bitmap font)                 *)
(*   advance tenths of the font size one character is wide                 *)
(*   encode  img.save succeeds                                             *)
(***************************************************************************)
CARD_WIDTH == 900

\* one fallback URL per tier (lines 35-40)
FALLBACK_MEMES(key) == <<key>>

\* the variant of open_first that asks the remote sources before the local file
open_remote_first(urls, env) ==
    LET opened == IF env.local = "absent" THEN <<>> ELSE <<"local">>
        good   == {i \in DOMAIN urls : env.remote[i]}
    IN  IF good # {}
        THEN LET i == CHOOSE g \in good : \A h \in good : g <= h
             IN  [img |-> urls[i], tried |-> SubSeq(urls, 1, i)]
        ELSE IF env.local = "ok"
        THEN [img |-> "local", tried |-> urls \o opened]
        ELSE [img |-> None, tried |-> urls \o opened]

\* lines 90-105 for a tier whose fallback list is urls: the image found (None if
\* none), and the sources opened or requested, in order
open_first(urls, env) ==
    LET opened == IF env.local = "absent" THEN <<>> ELSE <<"local">>
        good   == {i \in DOMAIN urls : env.remote[i]}
    IN  IF env.local = "ok"
        THEN [img |-> "local", tried |-> opened]
        ELSE IF good = {}
        THEN [img |-> None, tried |-> opened \o urls]
        ELSE LET i == CHOOSE g \in good : \A h \in good : g <= h
             IN  [img |-> urls[i], tried |-> opened \o SubSeq(urls, 1, i)]

\* lines 86-105
choose_local_or_fallback(key, env) == open_first(FALLBACK_MEMES(key), env)

\* the three font candidates of lines 152-156, by position; 0 is font_path = None
NoPath == 0
FontCandidates == {1, 2, 3}

\* ImageFont.truetype(path, size) returns a font (TRUE) or raises (FALSE)
truetype(env, path, size) ==
    \/ env.fonts[path] = "scalable"
    \/ env.fonts[path] = "strike" /\ size = 48

\* line 109: the loop runs while the size is above this floor
MinSize == 10

\* ImageFont.load_default(): the built-in typeface, which the library hands out at
\* size 10 whatever size the caller was trying
DefaultFont == [kind |-> "default", size |-> 10]

TrueTypeFont(path, size) == [kind |-> "truetype", path |-> path, size |-> size]

\* the width textbbox measures for a text of len characters
text_width(env, font, len) ==
    IF font.kind = "default" THEN 6 * len ELSE (len * font.size * env.advance) \div 10

\* the variant of fit_text that keeps shrinking while the text still fits and
\* returns the smallest candidate that fits
fit_text_smallest(env, len, font_path, max_width, start_size) ==
    LET sizes == {s \in (MinSize + 1) .. start_size : (start_size - s) % 2 = 0}
        font(s) == IF font_path # NoPath THEN TrueTypeFont(font_path, s) ELSE DefaultFont
        raises == \/ font_path # NoPath /\ \E s \in sizes : ~truetype(env, font_path, s)
                  \/ font_path = NoPath /\ env.legacy
        fits == {s \in sizes : text_width(env, font(s), len) <= max_width}
    IN  IF raises \/ fits = {}
        THEN DefaultFont
        ELSE font(CHOOSE x \in fits : \A y \in fits : x <= y)

\* lines 107-122.  The loop tries start_size, start_size - 2, ... while the size is
\* above 10; the first size at which the try block returns or raises decides.
fit_text(env, len, font_path, max_width, start_size) ==
    LET sizes == {s \in (MinSize + 1) .. start_size : (start_size - s) % 2 = 0}
        font(s) == IF font_path # NoPath THEN TrueTypeFont(font_path, s) ELSE DefaultFont
        try(s) ==
            IF font_path # NoPath /\ ~truetype(env, font_path, s) THEN "raise"
            ELSE IF font_path = NoPath /\ env.legacy THEN "raise"
            ELSE IF text_width(env, font(s), len) <= max_width THEN "return"
            ELSE "next"
        stops == {s \in sizes : try(s) # "next"}
    IN  IF stops = {}
        THEN DefaultFont
        ELSE LET s == CHOOSE x \in stops : \A y \in stops : y <= x
             IN  IF try(s) = "return" THEN font(s) ELSE DefaultFont

\* lines 157-168: the first candidate that loads at size 48, else None
choose_font_path(env) ==
    LET ok == {p \in FontCandidates : truetype(env, p, 48)}
    IN  IF ok = {} THEN NoPath ELSE CHOOSE p \in ok : \A q \in ok : p <= q

\* the number of characters of f"{multiplier:.2f}x": the integer part, ".dd" and the sign
RECURSIVE DigitCount(_)
DigitCount(n) == IF n < 10 THEN 1 ELSE 1 + DigitCount(n \div 10)

mult_text_len(multiplier) == DigitCount(multiplier[1] \div multiplier[2]) + 4

\* lines 124-216.  The result says whether the PNG bytes were returned and, if not,
\* what raised: "font" (an ImageFont.truetype outside a try block), "bbox" (the
\* watermark's textbbox) or "encode" (img.save).
make_card_image(symbol_len, multiplier, env) ==
    LET key       == meme_key(multiplier)
        meme      == choose_local_or_fallback(key, env)
        font_path == choose_font_path(env)
        left_w    == (CARD_WIDTH * 55) \div 100 - 60
        title     == fit_text(env, symbol_len + 1, font_path, left_w, 72)
        mult      == fit_text(env, mult_text_len(multiplier), font_path, left_w, 96)
        reloads   == \A size \in {22, 14, 18} : truetype(env, font_path, size)
        raised    ==
            IF font_path # NoPath /\ ~reloads THEN "font"
            ELSE IF font_path = NoPath /\ env.legacy THEN "bbox"
            ELSE IF ~env.encode THEN "encode"
            ELSE None
    IN  [bytes |-> raised = None, raised |-> raised, meme_key |-> key,
         meme |-> meme.img, neon |-> neon(multiplier),
         font_path |-> font_path, title_font |-> title, mult_font |-> mult]

(***************************************************************************)
(* SpecRender: make_card_image under every environment.                    *)
(***************************************************************************)
FontKinds == {"missing", "scalable", "strike"}

RenderEnvs ==
    [local : {"absent", "broken", "ok"},
     remote : [{1} -> BOOLEAN],
     fonts : [FontCandidates -> FontKinds],
     legacy : BOOLEAN,
     advance : {6},
     encode : BOOLEAN]

MaxSymbolLen == 2

InitRender ==
    /\ BotInit
    /\ arg \in {[fn |-> "render", symbol_len |-> n, multiplier |-> m, env |-> e] :
                    n \in 1 .. MaxSymbolLen, m \in {Zero, Quot(11, 2)}, e \in RenderEnvs}
    /\ res = NotApplied

ApplyRender ==
    /\ arg.fn = "render"
    /\ ~res.done
    /\ res' = [done |-> TRUE, card |-> make_card_image(arg.symbol_len, arg.multiplier, arg.env)]
    /\ UNCHANGED arg
    /\ BotIdle

SpecRender == InitRender /\ [][ApplyRender]_vars

\* C10: render never fails on an I/O-adjacent failure.  Whatever the local file, the
\* remote fetches and the font loads do, make_card_image reaches img.save: it
\* returns the bytes unless the encoding itself fails.
C10_RenderNeverFails ==
    (arg.fn = "render" /\ res.done) =>
        /\ res.card.raised \in {None, "encode"}
        /\ arg.env.encode => res.card.bytes

\* every illustration source and every font candidate fails, on a library whose
\* textbbox takes the default font: the card is still encoded
C10_AllAssetsFail ==
    /\ arg.fn = "render"
    /\ res.done
    /\ arg.env.local = "broken"
    /\ ~arg.env.remote[1]
    /\ \A p \in FontCandidates : arg.env.fonts[p] = "missing"
    /\ res.card.meme = None
    /\ res.card.font_path = NoPath
    /\ res.card.bytes

(***************************************************************************)
(* SpecMeme: the illustration lookup for every tier, for fallback lists of  *)
(* several lengths and every answer of the file system and the network.     *)
(***************************************************************************)
MaxUrls == 2

TierKeys == {"low", "mid", "high", "ultra"}

\* the fallback lists of a tier: none, the one URL of lines 35-40, and longer lists
UrlLists(key) == {[i \in 1 .. n |-> key \o ToString(i)] : n \in 0 .. MaxUrls}

MemeEnvs == [local : {"absent", "broken", "ok"}, remote : [1 .. MaxUrls -> BOOLEAN]]

InitMeme ==
    /\ BotInit
    /\ arg \in {[fn |-> "meme", key |-> k, urls |-> u, env |-> e] :
                    k \in TierKeys, u \in UNION {UrlLists(x) : x \in TierKeys}, e \in MemeEnvs}
    /\ arg.urls \in UrlLists(arg.key)
    /\ res = NotApplied

ApplyMeme ==
    /\ arg.fn = "meme"
    /\ ~res.done
    /\ res' = [done |-> TRUE, val |-> open_first(arg.urls, arg.env)]
    /\ UNCHANGED arg
    /\ BotIdle

SpecMeme == InitMeme /\ [][ApplyMeme]_vars

\* the remote requests of a lookup: what was tried, without the local file
Requested(tried) ==
    IF tried # <<>> /\ tried[1] = "local" THEN Tail(tried) ELSE tried

\* C15: the illustration lookup chain.  The local file comes first and, when it
\* loads, is the result with no remote request made.  Otherwise the URLs are
\* requested in list order up to the first one that succeeds, which is the result,
\* and no URL after it is requested.  When the local file and every URL fail the
\* result is None: the lookup never ends in an error.
C15_LookupChain ==
    (arg.fn = "meme" /\ res.done) =>
        LET tried == res.val.tried
            req   == Requested(tried)
            good  == {i \in DOMAIN arg.urls : arg.env.remote[i]}
        IN  /\ \A i \in DOMAIN tried : tried[i] = "local" => i = 1
            /\ (arg.env.local # "absent") <=> (tried # <<>> /\ tried[1] = "local")
            /\ Len(req) <= Len(arg.urls)
            /\ req = SubSeq(arg.urls, 1, Len(req))
            /\ \A i \in 1 .. (Len(req) - 1) : ~arg.env.remote[i]
            /\ arg.env.local = "ok" => (res.val.img = "local" /\ req = <<>>)
            /\ (arg.env.local # "ok" /\ good # {}) =>
                  /\ res.val.img = req[Len(req)]
                  /\ arg.env.remote[Len(req)]
            /\ (arg.env.local # "ok" /\ good = {}) =>
                  /\ res.val.img = None
                  /\ req = arg.urls

\* the local file fails to load and the first of two URLs succeeds: it is the
\* result, and the second URL, which would succeed too, is not requested
C15_Witness ==
    /\ arg.fn = "meme"
    /\ res.done
    /\ arg.env.local = "broken"
    /\ Len(arg.urls) = 2
    /\ arg.env.remote[1] /\ arg.env.remote[2]
    /\ res.val.img = arg.urls[1]
    /\ res.val.tried = <<"local", arg.urls[1]>>

\* every source fails: no illustration
C15_WitnessNone ==
    /\ arg.fn = "meme"
    /\ res.done
    /\ arg.env.local = "broken"
    /\ Len(arg.urls) = 1
    /\ ~arg.env.remote[1]
    /\ res.val.img = None
    /\ res.val.tried = <<"local", arg.urls[1]>>

(***************************************************************************)
(* SpecFit: fit_text for texts of several lengths, width bounds, start      *)
(* sizes and fonts.                                                         *)
(***************************************************************************)
MaxTextLen == 2

\* short texts, and texts long enough to overflow the width bounds
FitLens == (1 .. MaxTextLen) \cup {10, 20, 100}

\* a bound nothing fits in, a narrow one, and left_w of make_card_image
FitWidths == {0, 100, (CARD_WIDTH * 55) \div 100 - 60}

\* sizes under, at and just over the floor, the default of the signature, and the
\* two sizes make_card_image passes
StartSizes == {8, 10, 11, 12, 13, 64, 72, 96}

\* the environments that differ in what fit_text sees: the first font and the library
FitEnvs ==
    {e \in RenderEnvs :
        /\ e.local = "ok" /\ e.remote[1] /\ e.encode
        /\ e.fonts[2] = "missing" /\ e.fonts[3] = "missing"}

InitFit ==
    /\ BotInit
    /\ arg \in {[fn |-> "fit", len |-> n, font_path |-> p, max_width |-> w,
                 start_size |-> z, env |-> e] :
                    n \in FitLens, p \in {NoPath, 1}, w \in FitWidths,
                    z \in StartSizes, e \in FitEnvs}
    /\ res = NotApplied

ApplyFit ==
    /\ arg.fn = "fit"
    /\ ~res.done
    /\ res' = [done |-> TRUE,
               font |-> fit_text(arg.env, arg.len, arg.font_path, arg.max_width,
                                 arg.start_size)]
    /\ UNCHANGED arg
    /\ BotIdle

SpecFit == InitFit /\ [][ApplyFit]_vars

\* the candidate sizes of a call: start_size, start_size - 2, ... above the floor
Candidates(start_size) ==
    {s \in 1 .. start_size : s > MinSize /\ (start_size - s) % 2 = 0}

\* the font the call tries at size s, whether it can be loaded and measured, and
\* whether the text fits at that size
Tried(s) ==
    IF arg.font_path = NoPath THEN DefaultFont ELSE TrueTypeFont(arg.font_path, s)

Measurable(s) ==
    IF arg.font_path = NoPath THEN ~arg.env.legacy
    ELSE truetype(arg.env, arg.font_path, s)

Fits(s) == text_width(arg.env, Tried(s), arg.len) <= arg.max_width

C11_BoundsFromFloor ==
    (arg.fn = "fit" /\ res.done) =>
        /\ MinSize <= res.font.size
        /\ arg.start_size >= MinSize => res.font.size <= arg.start_size

\* a start size under the floor: no candidate is tried and the built-in font comes
\* back at its own size, above start_size
C11_StartUnderFloor ==
    /\ arg.fn = "fit"
    /\ res.done
    /\ arg.start_size < MinSize
    /\ res.font.size > arg.start_size

\* C16: the result of shrink-to-fit.  The candidates are finitely many, so the call
\* ends.  When every candidate from start_size down to the largest one that fits
\* can be loaded and measured, the result is the requested font at that candidate:
\* it fits, and every larger candidate overflows.  When the candidates can be
\* measured and none fits, the call still returns a font, at the floor size,
\* although the text overflows at every candidate.
C16_ShrinkToFit ==
    (arg.fn = "fit" /\ res.done) =>
        LET sizes   == Candidates(arg.start_size)
            fitting == {s \in sizes : Measurable(s) /\ Fits(s)}
            upTo(s) == {x \in sizes : x >= s}
        IN  /\ \A s \in sizes : s <= arg.start_size /\ (arg.start_size - s) % 2 = 0
            /\ \A s \in fitting :
                  (/\ \A x \in upTo(s) : Measurable(x)
                   /\ \A x \in upTo(s) \ {s} : ~Fits(x)) =>
                      /\ res.font = Tried(s)
                      /\ text_width(arg.env, res.font, arg.len) <= arg.max_width
            /\ (/\ \A s \in sizes : Measurable(s)
                /\ fitting = {}) =>
                  /\ res.font.size = MinSize
                  /\ \A s \in sizes : text_width(arg.env, Tried(s), arg.len) > arg.max_width

\* a ten-character text under the narrow bound with start size 72: the sizes from 72
\* down to 18 overflow and the font comes back at 16
C16_Witness ==
    /\ arg.fn = "fit"
    /\ res.done
    /\ arg.font_path # NoPath
    /\ arg.start_size = 72
    /\ arg.len = 10
    /\ arg.max_width = 100
    /\ res.font = TrueTypeFont(arg.font_path, 16)

\* a text that overflows at every candidate: accepted at the floor size
C16_WitnessOverflow ==
    /\ arg.fn = "fit"
    /\ res.done
    /\ arg.font_path # NoPath
    /\ arg.env.fonts[arg.font_path] = "scalable"
    /\ arg.start_size = 96
    /\ arg.len = 100
    /\ arg.max_width = 100
    /\ res.font.size = MinSize

(***************************************************************************)
(* The market-data resolver.  A response is what one HTTP request to the   *)
(* price source yields; a net is the sequence of responses that successive *)
(* requests would get.  A numeric field of a pair record is <<>> when the  *)
(* record lacks it and <<v>> otherwise.                                    *)
(***************************************************************************)
NoData == [none |-> TRUE]

Timeout   == [kind |-> "timeout"]
Malformed == [kind |-> "malformed"]
NoPairsKey == [kind |-> "json", has_pairs |-> FALSE, pairs |-> <<>>]
Pairs(ps) == [kind |-> "json", has_pairs |-> TRUE, pairs |-> ps]

\* x or 0, then float(): a missing number counts as 0
float_or_0(field) == IF field = <<>> THEN 0 ELSE field[1]

\* ca[:8]
Prefix8(ca) == SubSeq(ca, 1, IF Len(ca) < 8 THEN Len(ca) ELSE 8)

\* lines 76-81, on the first pair record p
quote_of(p, ca) ==
    [price  |-> float_or_0(p.priceUsd),
     mcap   |-> float_or_0(p.fdv),
     symbol |-> IF p.symbol # <<>> THEN p.symbol
                ELSE IF p.name # <<>> THEN p.name
                ELSE Prefix8(ca),
     chain  |-> IF p.chainId = None THEN "unknown" ELSE p.chainId]

\* what one request leads to: the quote, or NoData when requests.get or r.json()
\* raises and when the payload has no pair record
attempt(ca, response) ==
    IF response.kind # "json" THEN NoData
    ELSE IF response.has_pairs /\ response.pairs # <<>> THEN quote_of(response.pairs[1], ca)
    ELSE NoData

\* the variant of get_token_data that asks once more after a failed attempt
get_token_data_retry(ca, net) ==
    IF attempt(ca, net[1]) # NoData
    THEN [data |-> attempt(ca, net[1]), requests |-> 1]
    ELSE [data |-> attempt(ca, net[2]), requests |-> 2]

\* lines 69-84: one request, whatever it yields
get_token_data(ca, net) == [data |-> attempt(ca, net[1]), requests |-> 1]

(***************************************************************************)
(* The snapshot store: load_data, save_data and the check-then-insert of   *)
(* handle_message.                                                         *)
(***************************************************************************)
\* lines 47-49: json.load raises on a file that is not a complete JSON document
load_data_raises == ~file.valid

\* the variant of load_data that hands out a copy read before any change
load_data_stale == EmptyMap

load_data == file.data

\* lines 51-53, once json.dump has run and the file is closed
save_data(d) == [valid |-> TRUE, data |-> d]

\* the variant of Without that drops every entry
without_all(d, ca) == EmptyMap

\* del data[ca] (line 320)
Without(d, ca) == [k \in DOMAIN d \ {ca} |-> d[k]]

\* the variant of track_if_absent that writes the new quote over an existing entry
track_always(stored, ca, snapshot) ==
    [inserted |-> TRUE, stored |-> (ca :> snapshot) @@ Without(stored, ca)]

\* the variant of track_if_absent that writes back the new entry alone
track_alone(stored, ca, snapshot) ==
    IF ca \notin DOMAIN stored
    THEN [inserted |-> TRUE, stored |-> (ca :> snapshot)]
    ELSE [inserted |-> FALSE, stored |-> stored]

\* lines 232-246: the membership check and the insert
track_if_absent(stored, ca, snapshot) ==
    IF ca \notin DOMAIN stored
    THEN [inserted |-> TRUE, stored |-> (ca :> snapshot) @@ stored]
    ELSE [inserted |-> FALSE, stored |-> stored]

\* the variant of snapshot_of that stores an empty quote
snapshot_empty(data, now, poster) ==
    [price |-> 0, mcap |-> 0, symbol |-> data.symbol,
     chain |-> data.chain, time |-> now, poster |-> poster]

\* lines 233-240
snapshot_of(data, now, poster) ==
    [price |-> data.price, mcap |-> data.mcap, symbol |-> data.symbol,
     chain |-> data.chain, time |-> now, poster |-> poster]

(***************************************************************************)
(* str.strip() and str.split() on the space character.                     *)
(***************************************************************************)
strip(text) ==
    LET inked == {i \in DOMAIN text : text[i] # " "}
    IN  IF inked = {}
        THEN <<>>
        ELSE SubSeq(text,
                    CHOOSE i \in inked : \A j \in inked : i <= j,
                    CHOOSE i \in inked : \A j \in inked : j <= i)

split(text) ==
    LET starts == {i \in DOMAIN text :
                      text[i] # " " /\ (i = 1 \/ text[i - 1] = " ")}
        stop(i) == CHOOSE j \in i .. Len(text) :
                      /\ \A k \in i .. j : text[k] # " "
                      /\ (j = Len(text) \/ text[j + 1] = " ")
        nth(n)  == CHOOSE i \in starts : Cardinality({j \in starts : j < i}) = n - 1
    IN  [n \in 1 .. Cardinality(starts) |-> SubSeq(text, nth(n), stop(nth(n)))]

(***************************************************************************)
(* The inputs of the bot: message texts, command texts, responses of the   *)
(* price source, clock readings, senders and render environments.          *)
(***************************************************************************)
Chat == <<"g", "m">>

MsgTexts == {EvmUpper, SolShort, Chat}

PnlCmd == <<"/", "p", "n", "l">>
UntrackCmd == <<"/", "u", "n", "t", "r", "a", "c", "k">>

Addresses == {EvmUpper, EvmLower, SolShort}

PnlTexts == {PnlCmd} \cup {PnlCmd \o Sp \o a : a \in Addresses}
UntrackTexts == {UntrackCmd} \cup {UntrackCmd \o Sp \o a : a \in Addresses}

\* msg.reply_to_message: absent, or a message with a text
ReplyTos ==
    {[replied |-> FALSE, text |-> <<>>]} \cup {[replied |-> TRUE, text |-> t] : t \in MsgTexts}

\* the pair records the price source answers with: the baseline and the later quote
\* of the round-trip scenario (mcap 100,000 and 550,000 in units of 1,000; price
\* 0.0001 and 0.0006 in units of 0.0001), and a record with no number, no symbol
\* and no chain
PairA == [priceUsd |-> <<1>>, fdv |-> <<100>>, symbol |-> <<"A", "H">>,
          name |-> <<"A", "l", "p", "h", "a">>, chainId |-> "ethereum"]
PairB == [priceUsd |-> <<6>>, fdv |-> <<550>>, symbol |-> <<"A", "H">>,
          name |-> <<"A", "l", "p", "h", "a">>, chainId |-> "ethereum"]
PairBare == [priceUsd |-> <<>>, fdv |-> <<>>, symbol |-> <<>>, name |-> <<>>,
             chainId |-> None]

Responses ==
    {Timeout, Malformed, NoPairsKey, Pairs(<<>>),
     Pairs(<<PairA>>), Pairs(<<PairB, PairA>>), Pairs(<<PairBare>>)}

\* the responses a handler's requests get: the first, and what asking again would get
Net(response) == <<response, Pairs(<<PairB>>)>>

MaxTime == 1
Times == 0 .. MaxTime

\* from_user.username, "" when the message has no from_user
Posters == {"alice", ""}

AllLoad == [p \in FontCandidates |-> "scalable"]
NoneLoad == [p \in FontCandidates |-> "missing"]

\* everything works; no illustration and no font; the first font is a strike font;
\* the encoder fails
BotRenderEnvs ==
    {[local |-> "ok", remote |-> <<TRUE>>, fonts |-> AllLoad, legacy |-> FALSE,
      advance |-> 6, encode |-> TRUE],
     [local |-> "absent", remote |-> <<FALSE>>, fonts |-> NoneLoad, legacy |-> FALSE,
      advance |-> 6, encode |-> TRUE],
     [local |-> "ok", remote |-> <<TRUE>>, fonts |-> [AllLoad EXCEPT ![1] = "strike"],
      legacy |-> FALSE, advance |-> 6, encode |-> TRUE],
     [local |-> "ok", remote |-> <<TRUE>>, fonts |-> AllLoad, legacy |-> FALSE,
      advance |-> 6, encode |-> FALSE]}

\* every quote, multiplier and card that these inputs can lead to, computed once
BotQuotes == {attempt(a, r) : a \in Addresses, r \in Responses} \ {NoData}
BotMultipliers ==
    {pnl_multiplier(b.mcap, b.price, c.mcap, c.price) : b \in BotQuotes, c \in BotQuotes}
CardOf ==
    [k \in {Len(q.symbol) : q \in BotQuotes} \X BotMultipliers \X BotRenderEnvs |->
        make_card_image(k[1], k[2], k[3])]

\* the texts of the model, stripped and scanned once
Detected == [t \in MsgTexts |-> detect_contract_address(strip(t))]
Parts == [c \in PnlTexts \cup UntrackTexts |-> split(strip(c))]
LowerArg == [c \in UntrackTexts |-> IF Len(Parts[c]) < 2 THEN NoCa ELSE lower(strip(Parts[c][2]))]

\* every key handle_message can store
Keys == {Detected[t][1] : t \in MsgTexts} \ {NoCa}

(***************************************************************************)
(* The handlers.  python-telegram-bot runs each handler as a coroutine on  *)
(* one event loop: a handler runs without interruption up to its await,    *)
(* which in every handler is the reply that ends it.  The step of a        *)
(* handler is therefore everything before the reply; pend[t] holds the     *)
(* reply task t awaits, and Reply(t) issues it.                            *)
(***************************************************************************)
Removals(ca) == IF ca \in DOMAIN removals THEN removals[ca] ELSE 0

MaxRemovals == 1

Await(t, reply) == pend' = [pend EXCEPT ![t] = reply]

\* lines 219-220
Start(t) ==
    /\ pend[t] = Idle
    /\ Await(t, [op |-> "start", outcome |-> "active"])
    /\ UNCHANGED <<file, removals, first, acked, arg, res>>

\* lines 222-246
HandleMessage(t) ==
    /\ pend[t] = Idle
    /\ \E text \in MsgTexts, response \in Responses :
        \E found \in {Detected[text]} :
        LET ca    == found[1]
            chain == found[2]
            got   == IF ca = NoCa THEN [data |-> NoData, requests |-> 0]
                     ELSE get_token_data(ca, Net(response))
            data  == got.data
        IN  IF ca = NoCa
            THEN UNCHANGED vars
            ELSE IF data = NoData
            THEN /\ Await(t, [op |-> "message", ca |-> ca, outcome |-> "no_fetch",
                              response |-> response, requests |-> got.requests])
                 /\ UNCHANGED <<file, removals, first, acked, arg, res>>
            ELSE IF load_data_raises
            THEN UNCHANGED vars
            ELSE \E now \in Times, poster \in Posters :
                 LET put == track_if_absent(load_data, ca, snapshot_of(data, now, poster))
                 IN  /\ file' = IF put.inserted THEN save_data(put.stored) ELSE file
                     /\ Await(t, [op |-> "message", ca |-> ca, chain |-> chain,
                                  outcome |-> IF put.inserted THEN "tracking" ELSE "already",
                                  response |-> response, data |-> data, time |-> now,
                                  requests |-> got.requests,
                                  seen |-> ca \in DOMAIN first, epoch |-> Removals(ca)])
                     /\ first' = IF ca \in DOMAIN first
                                 THEN first
                                 ELSE (ca :> snapshot_of(data, now, poster)) @@ first
                     /\ UNCHANGED <<removals, acked, arg, res>>

\* the variant of pnl_lookup that reads an unknown identifier as an empty baseline
pnl_lookup_default(stored, ca) ==
    IF ca \in DOMAIN stored
    THEN [found |-> TRUE, start_price |-> stored[ca].price, start_mcap |-> stored[ca].mcap]
    ELSE [found |-> TRUE, start_price |-> 0, start_mcap |-> 0]

\* lines 267-273
pnl_lookup(stored, ca) ==
    IF ca \in DOMAIN stored
    THEN [found |-> TRUE, start_price |-> stored[ca].price, start_mcap |-> stored[ca].mcap]
    ELSE [found |-> FALSE]

\* lines 248-299
Pnl(t) ==
    /\ pend[t] = Idle
    /\ \E text \in PnlTexts :
        \E reply_to \in IF Len(Parts[text]) > 1 THEN {[replied |-> FALSE, text |-> <<>>]}
                        ELSE ReplyTos :
        \E ca \in {IF Len(Parts[text]) > 1 THEN strip(Parts[text][2])
                   ELSE IF reply_to.replied THEN Detected[reply_to.text][1]
                   ELSE NoCa} :
            IF ca = NoCa
            THEN /\ Await(t, [op |-> "pnl", ca |-> ca, outcome |-> "usage", requests |-> 0])
                 /\ UNCHANGED <<file, removals, first, acked, arg, res>>
            ELSE IF load_data_raises
            THEN UNCHANGED vars
            ELSE IF ~pnl_lookup(load_data, ca).found
            THEN /\ Await(t, [op |-> "pnl", ca |-> ca, outcome |-> "unknown", requests |-> 0])
                 /\ UNCHANGED <<file, removals, first, acked, arg, res>>
            ELSE \E response \in Responses :
                    LET start_info == pnl_lookup(load_data, ca)
                        got  == get_token_data(ca, Net(response))
                        data == got.data
                        multiplier == pnl_multiplier(start_info.start_mcap,
                                                     start_info.start_price,
                                                     data.mcap, data.price)
                    IN  /\ IF data = NoData
                           THEN Await(t, [op |-> "pnl", ca |-> ca, outcome |-> "no_fetch",
                                          response |-> response, requests |-> got.requests])
                           ELSE \E env \in BotRenderEnvs :
                                  LET card == CardOf[<<Len(data.symbol), multiplier, env>>]
                                  IN  Await(t, [op |-> "pnl", ca |-> ca,
                                                outcome |-> IF card.bytes THEN "card"
                                                            ELSE "card_error",
                                                response |-> response,
                                                requests |-> got.requests,
                                                now_mcap |-> data.mcap,
                                                now_price |-> data.price,
                                                multiplier |-> multiplier,
                                                meme_key |-> card.meme_key,
                                                neon |-> card.neon,
                                                epoch |-> Removals(ca)])
                        /\ UNCHANGED <<file, removals, first, acked, arg, res>>

\* lines 301-309
ListTracked(t) ==
    /\ pend[t] = Idle
    /\ IF load_data_raises
       THEN UNCHANGED vars
       ELSE /\ Await(t, [op |-> "list",
                         outcome |-> IF load_data = EmptyMap THEN "empty" ELSE "list",
                         listed |-> DOMAIN load_data])
            /\ UNCHANGED <<file, removals, first, acked, arg, res>>

\* lines 311-324
Untrack(t) ==
    /\ pend[t] = Idle
    /\ \E text \in UntrackTexts :
        LET parts == Parts[text]
            ca    == LowerArg[text]
        IN  IF Len(parts) < 2
            THEN /\ Await(t, [op |-> "untrack", outcome |-> "usage"])
                 /\ UNCHANGED <<file, removals, first, acked, arg, res>>
            ELSE IF load_data_raises
            THEN UNCHANGED vars
            ELSE IF ca \in DOMAIN load_data
            THEN /\ Removals(ca) < MaxRemovals
                 /\ file' = save_data(Without(load_data, ca))
                 /\ Await(t, [op |-> "untrack", ca |-> ca, named |-> strip(parts[2]),
                              outcome |-> "untracked"])
                 /\ removals' = (ca :> Removals(ca) + 1) @@ removals
                 /\ first' = Without(first, ca)
                 /\ acked' = acked \ {ca}
                 /\ UNCHANGED <<arg, res>>
            ELSE /\ Await(t, [op |-> "untrack", ca |-> ca, named |-> strip(parts[2]),
                              outcome |-> "not_tracked"])
                 /\ UNCHANGED <<file, removals, first, acked, arg, res>>

\* the awaited reply_text / reply_photo completes: the reply is issued
Reply(t) ==
    /\ pend[t] # Idle
    /\ pend' = [pend EXCEPT ![t] = Idle]
    /\ acked' = IF /\ pend[t].op = "message"
                   /\ pend[t].outcome = "tracking"
                   /\ pend[t].epoch = Removals(pend[t].ca)
                THEN acked \cup {pend[t].ca}
                ELSE acked
    /\ UNCHANGED <<file, removals, first, arg, res>>

\* the process dies and is started again: the replies in flight are gone, and lines
\* 43-45 leave the existing file as it is
Restart ==
    /\ pend' = [t \in Tasks |-> Idle]
    /\ UNCHANGED <<file, removals, first, acked, arg, res>>

\* the process dies inside save_data (lines 51-53), after open(DATA_FILE, "w") has
\* truncated the file and before json.dump's output is flushed, and is started
\* again.  save_data is reached by an insert and by a removal.
DieInSave ==
    /\ ~load_data_raises
    /\ \/ \E text \in MsgTexts :
            /\ Detected[text][1] # NoCa
            /\ Detected[text][1] \notin DOMAIN load_data
       \/ \E text \in UntrackTexts :
            /\ Len(Parts[text]) >= 2
            /\ LowerArg[text] \in DOMAIN load_data
    /\ file' = Corrupt
    /\ pend' = [t \in Tasks |-> Idle]
    /\ UNCHANGED <<removals, first, acked, arg, res>>

\* ApplicationBuilder().token(BOT_TOKEN).build() (line 328) leaves concurrent_updates
\* off: the application processes one update at a time, in task 1
Next ==
    \/ Start(1)
    \/ HandleMessage(1)
    \/ Pnl(1)
    \/ ListTracked(1)
    \/ Untrack(1)
    \/ Reply(1)
    \/ Restart
    \/ DieInSave

Init ==
    /\ BotInit
    /\ arg = None
    /\ res = NotApplied

Spec == Init /\ [][Next]_vars

\* the same handlers with updates processed concurrently, as coroutines that
\* interleave at their awaits: the handlers that write the store, on every task
NextConcurrent ==
    \E t \in Tasks :
        \/ HandleMessage(t)
        \/ Untrack(t)
        \/ Reply(t)

SpecConcurrent == Init /\ [][NextConcurrent]_vars

(***************************************************************************)
(* The claims about the handlers.                                          *)
(***************************************************************************)
Tracked(ca) == file.valid /\ ca \in DOMAIN file.data

\* a handler has run to its reply in this step
Handled(t) == pend[t] = Idle /\ pend'[t] # Idle

\* a message event whose resolution succeeded awaits its reply
MessageDone(t) ==
    pend[t].op = "message" /\ pend[t].outcome \in {"tracking", "already"}

\* C1: insert-if-absent keeps the first baseline.  While the file stays a complete
\* document, every identifier whose resolution succeeded in a message event since
\* its last /untrack is tracked, and its stored price, mcap, symbol, chain, time and
\* poster are those of the first such event; the event reports 'Tracking' exactly
\* when it is the first one, and 'Already tracking' otherwise.
C1_FirstBaselineKept ==
    file.valid =>
        /\ \A ca \in DOMAIN first : Tracked(ca) /\ file.data[ca] = first[ca]
        /\ \A t \in Tasks :
              MessageDone(t) => (pend[t].outcome = "already" <=> pend[t].seen)

\* a later message event resolved to another quote, reported 'Already tracking',
\* and the first quote is still the stored one
C1_Witness ==
    /\ MessageDone(1)
    /\ pend[1].outcome = "already"
    /\ Tracked(pend[1].ca)
    /\ pend[1].data.mcap # file.data[pend[1].ca].mcap
    /\ file.data[pend[1].ca] = first[pend[1].ca]

\* C2: at most one of the concurrent message events for an identifier inserts.  Of
\* the handlers that have handled the same identifier since its last removal and
\* still await their replies, at most one reports 'Tracking', exactly one if one of
\* them was the first to resolve it; the identifier is tracked, and what is stored
\* is the quote and the time of the one that reports 'Tracking'.
C2_OneInsertWins ==
    \A t \in Tasks :
        (MessageDone(t) /\ pend[t].epoch = Removals(pend[t].ca)) =>
            /\ Tracked(pend[t].ca)
            /\ pend[t].outcome = "tracking" =>
                  LET snapshot == file.data[pend[t].ca]
                  IN  /\ snapshot.price = pend[t].data.price
                      /\ snapshot.mcap = pend[t].data.mcap
                      /\ snapshot.symbol = pend[t].data.symbol
                      /\ snapshot.chain = pend[t].data.chain
                      /\ snapshot.time = pend[t].time
            /\ \A u \in Tasks \ {t} :
                  (/\ MessageDone(u)
                   /\ pend[u].ca = pend[t].ca
                   /\ pend[u].epoch = pend[t].epoch) =>
                      /\ ~(pend[t].outcome = "tracking" /\ pend[u].outcome = "tracking")
                      /\ (~pend[t].seen \/ ~pend[u].seen) =>
                            (pend[t].outcome = "tracking" \/ pend[u].outcome = "tracking")

\* two handlers await their replies for the same identifier, resolved to distinct
\* quotes: one inserted, the other found the entry
C2_Witness ==
    /\ MessageDone(1)
    /\ MessageDone(2)
    /\ pend[1].ca = pend[2].ca
    /\ pend[1].epoch = pend[2].epoch
    /\ pend[1].data # pend[2].data
    /\ pend[1].outcome = "already"
    /\ pend[2].outcome = "tracking"
    /\ file.data[pend[2].ca].mcap = pend[2].data.mcap

\* C3: durability.  A handler that awaits its 'Tracking' reply has its entry in the
\* file, one that awaits its 'Untracked' reply has it out of the file, and every
\* baseline whose 'Tracking' reply was issued, and that no /untrack removed since,
\* is in the file that the restarted process loads.
C3_DurableAcrossRestart ==
    /\ \A t \in Tasks :
          /\ (MessageDone(t) /\ pend[t].outcome = "tracking"
                /\ pend[t].epoch = Removals(pend[t].ca)) => Tracked(pend[t].ca)
          /\ (pend[t].op = "untrack" /\ pend[t].outcome = "untracked"
                /\ pend[t].ca \notin DOMAIN first) => ~Tracked(pend[t].ca)
    /\ \A ca \in acked : Tracked(ca)

\* the part of C3 that holds: each reply is awaited with the change already saved
C3_SavedBeforeReply ==
    [][\A t \in Tasks :
          /\ (Handled(t) /\ pend'[t].op = "message" /\ pend'[t].outcome = "tracking") =>
                (file'.valid /\ pend'[t].ca \in DOMAIN file'.data)
          /\ (Handled(t) /\ pend'[t].op = "untrack" /\ pend'[t].outcome = "untracked") =>
                (file'.valid /\ pend'[t].ca \notin DOMAIN file'.data)]_vars

\* the tier the claims name for a quotient n / d
TierOf(n, d) ==
    IF n < 2 * d THEN "low"
    ELSE IF n < 10 * d THEN "mid"
    ELSE IF n < 20 * d THEN "high"
    ELSE "ultra"

\* a /pnl that got a quote awaits the reply for its card
PnlDone(t) == pend[t].op = "pnl" /\ pend[t].outcome \in {"card", "card_error"}

\* C6: the round trip.  When /pnl has resolved a tracked identifier to a current
\* mcap C > 0 and the stored baseline mcap is B > 0, the multiplier handed to the
\* renderer is C / B, the tier chosen is the tier of C / B, and the baseline is
\* still the first quote of the identifier, which the request has not changed.
C6_RoundTrip ==
    \A t \in Tasks :
        (PnlDone(t) /\ pend[t].epoch = Removals(pend[t].ca) /\ file.valid) =>
            /\ Tracked(pend[t].ca)
            /\ pend[t].ca \in DOMAIN first
            /\ file.data[pend[t].ca] = first[pend[t].ca]
            /\ LET B == first[pend[t].ca].mcap
                   C == pend[t].now_mcap
                   m == pend[t].multiplier
               IN  (B > 0 /\ C > 0) =>
                      /\ m[1] * B = C * m[2]
                      /\ pend[t].meme_key = TierOf(C, B)

\* baseline 100,000, current 550,000: the card shows 5.5 and the tier mid
C6_Witness ==
    /\ PnlDone(1)
    /\ pend[1].outcome = "card"
    /\ Tracked(pend[1].ca)
    /\ file.data[pend[1].ca].mcap = 100
    /\ pend[1].now_mcap = 550
    /\ pend[1].multiplier[1] * 10 = 55 * pend[1].multiplier[2]
    /\ pend[1].meme_key = "mid"

\* the responses that carry no pair record, or are no response at all
Unavailable(response) ==
    \/ response.kind \in {"timeout", "malformed"}
    \/ ~response.has_pairs
    \/ Len(response.pairs) = 0

\* C7: an unavailable resolution.  A handler whose request got no pair record, timed
\* out or got a malformed payload made that one request, ends with the 'could not
\* fetch' reply (no entry, no card), and leaves the file as it was.
C7_UnavailableSurfaces ==
    [][\A t \in Tasks :
          (/\ Handled(t)
           /\ pend'[t].op \in {"message", "pnl"}
           /\ pend'[t].requests > 0
           /\ Unavailable(pend'[t].response)) =>
              /\ pend'[t].outcome = "no_fetch"
              /\ pend'[t].requests = 1
              /\ file' = file]_vars

\* a /pnl for a tracked identifier whose request timed out
C7_Witness ==
    /\ pend[1].op = "pnl"
    /\ pend[1].outcome = "no_fetch"
    /\ pend[1].response = Timeout
    /\ pend[1].requests = 1
    /\ Tracked(pend[1].ca)

\* C8: /pnl for an identifier with no baseline.  It ends with the 'post it first'
\* reply, issues no market-data request, renders no card and leaves the file as it
\* was: it creates no baseline.
C8_UnknownIdentifier ==
    [][\A t \in Tasks :
          (/\ Handled(t)
           /\ pend'[t].op = "pnl"
           /\ pend'[t].ca # NoCa
           /\ file.valid
           /\ pend'[t].ca \notin DOMAIN file.data) =>
              /\ pend'[t].outcome = "unknown"
              /\ pend'[t].requests = 0
              /\ file' = file]_vars

\* a /pnl replying to a message whose identifier is not tracked, while another is
C8_Witness ==
    /\ pend[1].op = "pnl"
    /\ pend[1].outcome = "unknown"
    /\ pend[1].ca = SolShort
    /\ file.valid
    /\ DOMAIN file.data = {EvmLower}

\* the key handle_message stores an address under: EVM lowercased, SOL as written
NormalizedKey == [a \in Addresses |-> detect_contract_address(a)[1]]

\* C12: /pnl looks an explicit argument up under its normalized key.  A /pnl that
\* names an address whose normalized key is tracked, in whatever letter case the
\* address is written, does not end with the 'post it first' reply.
C12_PnlNormalizesKey ==
    \A t \in Tasks :
        (/\ pend[t].op = "pnl"
         /\ pend[t].ca # NoCa
         /\ file.valid
         /\ NormalizedKey[pend[t].ca] \in DOMAIN file.data) =>
            pend[t].outcome # "unknown"

\* the part of C12 that holds: an address named exactly as it is stored (an EVM
\* address in lower case, a base-58 address as posted) is found
C12_StoredFormFound ==
    \A t \in Tasks :
        (/\ pend[t].op = "pnl"
         /\ pend[t].ca # NoCa
         /\ file.valid
         /\ pend[t].ca \in DOMAIN file.data) =>
            pend[t].outcome # "unknown"

\* /pnl 0xAAAA...AAAA, as the address was posted, while its lowercase key is tracked
C12_UpperCaseUnknown ==
    /\ pend[1].op = "pnl"
    /\ pend[1].ca = EvmUpper
    /\ Tracked(EvmLower)
    /\ pend[1].outcome = "unknown"

\* C13: /untrack removes a tracked identifier of either family.  An /untrack naming
\* an address whose normalized key is tracked reports 'Untracked' and leaves the
\* file without exactly that entry; one naming an address whose key is not tracked
\* reports 'not tracked' and leaves the file as it was.
C13_UntrackEitherFamily ==
    [][\A t \in Tasks :
          (/\ Handled(t)
           /\ pend'[t].op = "untrack"
           /\ pend'[t].outcome # "usage"
           /\ file.valid) =>
              LET key == NormalizedKey[pend'[t].named]
              IN  IF key \in DOMAIN file.data
                  THEN /\ pend'[t].outcome = "untracked"
                       /\ file'.valid
                       /\ file'.data = Without(file.data, key)
                  ELSE /\ pend'[t].outcome = "not_tracked"
                       /\ file' = file]_vars

\* the part of C13 that holds: the same with the lowercased argument as the key,
\* which is the stored key of every EVM address
C13_UntrackLowercased ==
    [][\A t \in Tasks :
          (/\ Handled(t)
           /\ pend'[t].op = "untrack"
           /\ pend'[t].outcome # "usage"
           /\ file.valid) =>
              LET key == lower(pend'[t].named)
              IN  IF key \in DOMAIN file.data
                  THEN /\ pend'[t].outcome = "untracked"
                       /\ file'.valid
                       /\ file'.data = Without(file.data, key)
                  ELSE /\ pend'[t].outcome = "not_tracked"
                       /\ file' = file]_vars

\* /untrack of a tracked base-58 address, named as it is stored: 'not tracked'
C13_SolNotRemoved ==
    /\ pend[1].op = "untrack"
    /\ pend[1].outcome = "not_tracked"
    /\ pend[1].named = SolShort
    /\ Tracked(SolShort)

\* C14: the frame of the tracked set.  In every step that leaves the file a
\* complete document: an entry appears only through a message event whose
\* resolution succeeded for an identifier that was not tracked, and holds that
\* event's quote; an entry disappears only through an /untrack that names it; each
\* such step adds or drops that one entry; every entry that stays keeps all its
\* fields; and /start, /pnl and /list, whatever their outcome, leave the file as
\* it was.  A file that is not a complete document is never changed.
C14_Frame ==
    [][IF ~file.valid
       THEN file' = file
       ELSE file'.valid =>
          /\ \A ca \in DOMAIN file'.data \ DOMAIN file.data :
                /\ DOMAIN file'.data = DOMAIN file.data \cup {ca}
                /\ \E t \in Tasks :
                      /\ Handled(t)
                      /\ pend'[t].op = "message"
                      /\ pend'[t].outcome = "tracking"
                      /\ pend'[t].ca = ca
                      /\ pend'[t].data # NoData
                      /\ file'.data[ca].mcap = pend'[t].data.mcap
                      /\ file'.data[ca].price = pend'[t].data.price
          /\ \A ca \in DOMAIN file.data \ DOMAIN file'.data :
                /\ DOMAIN file'.data = DOMAIN file.data \ {ca}
                /\ \E t \in Tasks :
                      /\ Handled(t)
                      /\ pend'[t].op = "untrack"
                      /\ pend'[t].outcome = "untracked"
                      /\ pend'[t].ca = ca
          /\ \A ca \in DOMAIN file.data \cap DOMAIN file'.data :
                file'.data[ca] = file.data[ca]
          /\ \A t \in Tasks :
                (Handled(t) /\ pend'[t].op \in {"start", "pnl", "list"}) => file' = file
          /\ \A t \in Tasks :
                (Handled(t) /\ pend'[t].op = "message" /\ pend'[t].outcome # "tracking") =>
                    file' = file
          /\ \A t \in Tasks :
                (Handled(t) /\ pend'[t].op = "untrack" /\ pend'[t].outcome # "untracked") =>
                    file' = file]_vars

\* an /untrack of one of two tracked identifiers: the other entry is as it was first
\* stored
C14_Witness ==
    /\ pend[1].op = "untrack"
    /\ pend[1].outcome = "untracked"
    /\ ~Tracked(pend[1].ca)
    /\ Tracked(SolShort)
    /\ file.data[SolShort] = first[SolShort]

\* a /pnl that rendered a card while two identifiers are tracked
C14_WitnessPnl ==
    /\ pend[1].op = "pnl"
    /\ pend[1].outcome = "card"
    /\ file.valid
    /\ DOMAIN file.data = {EvmLower, SolShort}

\* C17: no lost updates across identifiers.  With handlers interleaving at their
\* awaits, the file holds exactly the identifiers inserted and not removed since:
\* each with the quote of its insert, whatever other identifiers were inserted or
\* removed meanwhile; every identifier whose 'Tracking' reply was issued and that
\* no /untrack removed since is in the file; a handler awaiting its 'Untracked'
\* reply, with no insert since, has its identifier out of the file; and once every
\* handler has finished, the file holds the acknowledged inserts and nothing else.
C17_NoLostUpdates ==
    /\ file.valid
    /\ DOMAIN file.data = DOMAIN first
    /\ \A ca \in DOMAIN first : file.data[ca] = first[ca]
    /\ \A ca \in acked : Tracked(ca)
    /\ \A t \in Tasks :
          (/\ pend[t].op = "untrack"
           /\ pend[t].outcome = "untracked"
           /\ pend[t].ca \notin DOMAIN first) => ~Tracked(pend[t].ca)
    /\ (\A t \in Tasks : pend[t] = Idle) => DOMAIN file.data = acked

\* one handler awaits its 'Untracked' reply for an identifier and the other its
\* 'Tracking' reply for another identifier: the file lacks the first and holds the
\* second
C17_Witness ==
    /\ pend[1].op = "untrack"
    /\ pend[1].outcome = "untracked"
    /\ MessageDone(2)
    /\ pend[2].outcome = "tracking"
    /\ pend[2].ca # pend[1].ca
    /\ ~Tracked(pend[1].ca)
    /\ Tracked(pend[2].ca)

\* two handlers await their 'Tracking' replies for two identifiers: both are stored
C17_WitnessInserts ==
    /\ MessageDone(1) /\ pend[1].outcome = "tracking"
    /\ MessageDone(2) /\ pend[2].outcome = "tracking"
    /\ pend[1].ca # pend[2].ca
    /\ Tracked(pend[1].ca)
    /\ Tracked(pend[2].ca)

\* C18: re-tracking after removal.  The first message event that resolves an
\* identifier after an /untrack removed it reports 'Tracking' and stores that
\* event's quote, time and poster as a fresh entry, which becomes the identifier's
\* first quote; a later message event for it reports 'Already tracking' and leaves
\* the file as it was.
C18_RetrackIsFresh ==
    [][\A t \in Tasks :
          (/\ Handled(t)
           /\ pend'[t].op = "message"
           /\ pend'[t].outcome \in {"tracking", "already"}
           /\ file.valid
           /\ Removals(pend'[t].ca) > 0) =>
              LET ca == pend'[t].ca
              IN  IF ca \notin DOMAIN first
                  THEN /\ pend'[t].outcome = "tracking"
                       /\ ca \notin DOMAIN file.data
                       /\ file'.valid /\ ca \in DOMAIN file'.data
                       /\ file'.data[ca].price = pend'[t].data.price
                       /\ file'.data[ca].mcap = pend'[t].data.mcap
                       /\ file'.data[ca].symbol = pend'[t].data.symbol
                       /\ file'.data[ca].chain = pend'[t].data.chain
                       /\ file'.data[ca].time = pend'[t].time
                       /\ first'[ca] = file'.data[ca]
                  ELSE /\ pend'[t].outcome = "already"
                       /\ file' = file
                       /\ file.data[ca] = first[ca]]_vars

\* an identifier tracked again after its removal, with the quote of the new event
C18_Witness ==
    /\ MessageDone(1)
    /\ pend[1].outcome = "tracking"
    /\ pend[1].epoch > 0
    /\ Tracked(pend[1].ca)
    /\ file.data[pend[1].ca].mcap = 550
    /\ file.data[pend[1].ca].mcap = pend[1].data.mcap

\* a later event for the re-tracked identifier, with another quote: the new
\* baseline stays
C18_WitnessAlready ==
    /\ MessageDone(1)
    /\ pend[1].outcome = "already"
    /\ pend[1].epoch > 0
    /\ Tracked(pend[1].ca)
    /\ file.data[pend[1].ca].mcap # pend[1].data.mcap

\* a baseline with neither a market cap nor a price
ZeroBaseline(snapshot) == snapshot.mcap = 0 /\ snapshot.price = 0

\* C19: a zero baseline is sticky.  While the file is a complete document, an
\* identifier whose first resolved quote since its last removal has mcap 0 and
\* price 0 is stored with that quote, through every later message event; and every
\* /pnl for it that gets a current quote computes the multiplier 0, the tier low
\* and the loss accent, whatever the current quote is.
C19_ZeroBaselineSticky ==
    file.valid =>
        /\ \A ca \in DOMAIN first :
              ZeroBaseline(first[ca]) => (Tracked(ca) /\ ZeroBaseline(file.data[ca]))
        /\ \A t \in Tasks :
              (/\ PnlDone(t)
               /\ pend[t].ca \in DOMAIN first
               /\ ZeroBaseline(first[pend[t].ca])) =>
                  /\ pend[t].multiplier[1] = 0
                  /\ pend[t].meme_key = "low"
                  /\ pend[t].neon = "loss"

\* a /pnl with a current mcap of 550,000 against a zero baseline, after a later
\* message event for the identifier: multiplier 0, low, loss
C19_Witness ==
    /\ PnlDone(1)
    /\ pend[1].outcome = "card"
    /\ Tracked(pend[1].ca)
    /\ ZeroBaseline(file.data[pend[1].ca])
    /\ pend[1].now_mcap = 550
    /\ pend[1].multiplier[1] = 0
    /\ pend[1].meme_key = "low"
    /\ pend[1].neon = "loss"

====
